---- MODULE Spec2Model ----
(***************************************************************************)
(* Model of the item-cleaning pipeline of scraper.py: dedup_key and the    *)
(* drop_duplicates step of main, calculate_similarity,                     *)
(* remove_similar_news, filter_sources, filter_blacklist, prioritize and   *)
(* the control flow of main.                                               *)
(*                                                                         *)
(* A Python str is a sequence of one-character strings; Python's None is   *)
(* the value None below.  A DataFrame is a sequence of rows; each row      *)
(* carries its pandas index label (idx) next to the columns the pipeline   *)
(* reads (title, link, published_at).                                      *)
(***************************************************************************)
EXTENDS Integers, Sequences, FiniteSets

VARIABLES
    pc,         \* position of the running function
    df,         \* the DataFrame the running function holds / returned
    prev,       \* the DataFrame the last executed stage received
    cfg,        \* configuration values read by main (config.yaml)
    stages,     \* the stages executed so far, in order
    outputs,    \* rendering / notification steps executed so far
    text1,      \* first argument of calculate_similarity
    text2,      \* second argument of calculate_similarity
    result,     \* value returned by calculate_similarity (<<>> before the call)
    raw,        \* the fetched items (main's raw), as first put in a DataFrame
    arg,        \* the frame object the last stage was called on, as the call left it
    reported    \* the removed-count the last stage printed (<<>>: nothing printed)

vars == <<pc, df, prev, cfg, stages, outputs, text1, text2, result,
          raw, arg, reported>>

(***************************************************************************)
(* Strings                                                                 *)
(***************************************************************************)
None == <<"None">>

\* Python truthiness of an optional str: None and "" are falsy.
Falsy(s) == s = None \/ s = <<>>

\* (x or "")
OrEmpty(s) == IF Falsy(s) THEN <<>> ELSE s

\* All strings of length 0..n over the alphabet A.
StringsUpTo(A, n) == UNION {[1..k -> A] : k \in 0..n}

\* dom in url  (substring containment)
Contains(url, dom) ==
    \E i \in 0..(Len(url) - Len(dom)) : SubSeq(url, i + 1, i + Len(dom)) = dom

\* The characters of string.punctuation that occur in the modelled alphabets.
Punctuation == {"!", "."}

\* The whitespace characters str.split() separates on.
Whitespace == {" "}

\* str.lower() on one character.
LowerChar(c) == CASE c = "A" -> "a" [] c = "B" -> "b" [] OTHER -> c

\* str.lower()
Lower(s) == [i \in 1..Len(s) |-> LowerChar(s[i])]

\* str.translate(str.maketrans('', '', string.punctuation)): delete punctuation.
StripPunctuation(s) == SelectSeq(s, LAMBDA c : c \notin Punctuation)

\* set(text.split()): the maximal runs of non-whitespace characters.
Split(s) ==
    {SubSeq(s, i, j) : <<i, j>> \in
        {p \in (1..Len(s)) \X (1..Len(s)) :
            /\ p[1] <= p[2]
            /\ \A k \in p[1]..p[2] : s[k] \notin Whitespace
            /\ (p[1] = 1 \/ s[p[1] - 1] \in Whitespace)
            /\ (p[2] = Len(s) \/ s[p[2] + 1] \in Whitespace)}}

\* Lines 35-40: the normalized word set of a text.
Normalize(text) == Split(StripPunctuation(Lower(text)))

(***************************************************************************)
(* calculate_similarity (lines 28-49).  The returned float is kept as the  *)
(* exact ratio <<numerator, denominator>>; 0.0 is <<0, 1>>.                *)
(***************************************************************************)
Zero == <<0, 1>>

\* A scorer that divides by len(words1) + len(words2) instead of len(union).
SimilarityBySum(t1, t2) ==
    IF Falsy(t1) \/ Falsy(t2) THEN Zero
    ELSE LET words1 == Normalize(t1)
             words2 == Normalize(t2)
         IN  IF Cardinality(words1 \cup words2) = 0 THEN Zero
             ELSE <<Cardinality(words1 \cap words2),
                    Cardinality(words1) + Cardinality(words2)>>

\* A scorer that divides by len(words1) instead of len(union).
SimilarityByFirst(t1, t2) ==
    IF Falsy(t1) \/ Falsy(t2) THEN Zero
    ELSE LET words1 == Normalize(t1)
             words2 == Normalize(t2)
         IN  IF Cardinality(words1) = 0 THEN Zero
             ELSE <<Cardinality(words1 \cap words2), Cardinality(words1)>>

calculate_similarity(t1, t2) ==
    IF Falsy(t1) \/ Falsy(t2) THEN Zero
    ELSE LET words1 == Normalize(t1)
             words2 == Normalize(t2)
             intersection == words1 \cap words2
             union == words1 \cup words2
         IN  IF Cardinality(union) = 0 THEN Zero
             ELSE <<Cardinality(intersection), Cardinality(union)>>

\* a >= b for two ratios with positive denominators.
RatioGe(a, b) == a[1] * b[2] >= b[1] * a[2]

(***************************************************************************)
(* DataFrames                                                              *)
(***************************************************************************)
Row(i, t, l, p) == [idx |-> i, title |-> t, link |-> l, published_at |-> p]

\* The columns of a row, without its index label.
Fields(r) == <<r.title, r.link, r.published_at>>

\* The rows of d at the positions in P, in their order in d (df[mask]).
RowsAt(d, P) ==
    LET kept == SelectSeq([i \in 1..Len(d) |-> i], LAMBDA i : i \in P)
    IN  [k \in 1..Len(kept) |-> d[kept[k]]]

\* DataFrame(raw): rows labelled 0, 1, 2, ... in fetch order (line 545).
DataFrame(items) ==
    [k \in 1..Len(items) |->
        Row(k - 1, items[k][1], items[k][2], items[k][3])]

\* All batches of at most n items of the set Items, as DataFrames.
Batches(Items, n) == {DataFrame(b) : b \in UNION {[1..k -> Items] : k \in 0..n}}

\* reset_index(drop=True)
ResetIndex(d) == [k \in 1..Len(d) |-> [d[k] EXCEPT !.idx = k - 1]]

(***************************************************************************)
(* dedup_key (lines 24-26).  The MD5 digest is kept as the text it was     *)
(* computed from: equal texts give equal digests, and MD5 is taken to be   *)
(* collision-free on the batch.                                            *)
(***************************************************************************)
dedup_key(title, link) == OrEmpty(title) \o OrEmpty(link)

\* drop_duplicates that keeps the last row of each key (keep="last").
KeepLastOfKey(d) ==
    RowsAt(d, {p \in 1..Len(d) :
        \A q \in (p + 1)..Len(d) :
            dedup_key(d[q].title, d[q].link) # dedup_key(d[p].title, d[p].link)})

\* Lines 548-549 on a frame with rows: drop_duplicates(subset=["dedup"])
\* keeps the first row of each key, in order, with its index label.
drop_duplicates(d) ==
    RowsAt(d, {p \in 1..Len(d) :
        \A q \in 1..(p - 1) :
            dedup_key(d[q].title, d[q].link) # dedup_key(d[p].title, d[p].link)})

(***************************************************************************)
(* remove_similar_news (lines 51-74)                                       *)
(***************************************************************************)
\* Line 66 with > in place of >=.
StrictlyAbove(similarity, similarity_threshold) ==
    ~RatioGe(similarity_threshold, similarity)

\* Line 66: similarity >= similarity_threshold
AtLeastThreshold(similarity, similarity_threshold) ==
    RatioGe(similarity, similarity_threshold)

\* Lines 60-61 left out: removed rows are still used as the kept side.
NeverSkipped(i, to_remove) == FALSE

\* Lines 60-61: if i in to_remove: continue
SkipKeptSide(i, to_remove) == i \in to_remove

RECURSIVE InnerLoop(_, _, _, _, _)
\* Lines 62-67: for j in range(i + 1, len(titles)), positions counted from 1.
InnerLoop(titles, thr, i, j, to_remove) ==
    IF j > Len(titles) THEN to_remove
    ELSE IF j \in to_remove THEN InnerLoop(titles, thr, i, j + 1, to_remove)
    ELSE IF AtLeastThreshold(calculate_similarity(titles[i], titles[j]), thr)
         THEN InnerLoop(titles, thr, i, j + 1, to_remove \cup {j})
         ELSE InnerLoop(titles, thr, i, j + 1, to_remove)

RECURSIVE OuterLoop(_, _, _, _)
\* Lines 59-67: for i in range(len(titles))
OuterLoop(titles, thr, i, to_remove) ==
    IF i > Len(titles) THEN to_remove
    ELSE IF SkipKeptSide(i, to_remove) THEN OuterLoop(titles, thr, i + 1, to_remove)
    ELSE OuterLoop(titles, thr, i + 1, InnerLoop(titles, thr, i, i + 1, to_remove))

\* df.drop(labels): every row whose index label is in labels goes.
Drop(d, labels) == SelectSeq(d, LAMBDA r : r.idx \notin labels)

remove_similar_news(d, similarity_threshold) ==
    IF d = <<>> THEN d
    ELSE LET titles == [k \in 1..Len(d) |-> d[k].title]
             to_remove == OuterLoop(titles, similarity_threshold, 1, {})
         IN  IF to_remove # {}
             THEN ResetIndex(Drop(d, {d[p].idx : p \in to_remove}))
             ELSE d

(***************************************************************************)
(* filter_sources (lines 116-129)                                          *)
(***************************************************************************)
\* A filter that compares links and entries without regard to case.
FilterSourcesAnyCase(d, sources_preferidas) ==
    IF sources_preferidas = <<>> THEN d
    ELSE RowsAt(d, {p \in 1..Len(d) :
            \E k \in 1..Len(sources_preferidas) :
                Contains(Lower(OrEmpty(d[p].link)),
                         Lower(sources_preferidas[k]))})

filter_sources(d, sources_preferidas) ==
    IF sources_preferidas = <<>> THEN d
    ELSE RowsAt(d, {p \in 1..Len(d) :
            \E k \in 1..Len(sources_preferidas) :
                Contains(OrEmpty(d[p].link), sources_preferidas[k])})

(***************************************************************************)
(* filter_blacklist (lines 131-147)                                        *)
(***************************************************************************)
\* \w in the modelled alphabets: everything but punctuation and whitespace.
IsWordChar(c) == c \notin Punctuation \cup Whitespace

\* \b between the characters k and k + 1 of t (k = 0: the start).
WordBoundary(t, k) ==
    (k >= 1 /\ IsWordChar(t[k])) # (k < Len(t) /\ IsWordChar(t[k + 1]))

\* re.escape(word) found anywhere in the title, case-insensitively, with no \b.
SearchSubstring(word, title) ==
    \E k \in 0..(Len(title) - Len(word)) :
        Lower(SubSeq(title, k + 1, k + Len(word))) = Lower(word)

\* Lines 137, 140: re.search(r'\b' + re.escape(word) + r'\b', title, re.I)
Search(word, title) ==
    \E k \in 0..(Len(title) - Len(word)) :
        /\ WordBoundary(title, k)
        /\ Lower(SubSeq(title, k + 1, k + Len(word))) = Lower(word)
        /\ WordBoundary(title, k + Len(word))

\* Line 140: str.contains(pattern, case=False, na=False, regex=True)
TitleContains(title, blacklist) ==
    IF title = None THEN FALSE
    ELSE \E k \in 1..Len(blacklist) : Search(blacklist[k], title)

filter_blacklist(d, blacklist) ==
    IF blacklist = <<>> THEN d
    ELSE RowsAt(d, {p \in 1..Len(d) : ~TitleContains(d[p].title, blacklist)})

(***************************************************************************)
(* prioritize (lines 149-158)                                              *)
(***************************************************************************)
BasePriority == 100

RECURSIVE ScoreFrom(_, _, _)
\* Lines 153-156: the loop of score(url), i counted from 0.
ScoreFrom(url, prefer_list, i) ==
    IF i >= Len(prefer_list) THEN 0
    ELSE IF Contains(OrEmpty(url), prefer_list[i + 1]) THEN BasePriority - i
    ELSE ScoreFrom(url, prefer_list, i + 1)

score(url, prefer_list) == ScoreFrom(url, prefer_list, 0)

\* (priority, published_at) of a strictly before that of b, descending.
SortsBefore(a, b) ==
    \/ a.priority > b.priority
    \/ a.priority = b.priority /\ a.published_at > b.published_at

\* An insertion that puts r in front of the rows it ties with.
InsertBeforeTies(sorted, r) ==
    LET ahead == {k \in 1..Len(sorted) : SortsBefore(sorted[k], r)}
        n == Cardinality(ahead)
    IN  SubSeq(sorted, 1, n) \o <<r>> \o SubSeq(sorted, n + 1, Len(sorted))

\* One step of the stable sort: r goes behind every row that sorts before it
\* or ties with it.
InsertStable(sorted, r) ==
    LET ahead == {k \in 1..Len(sorted) : ~SortsBefore(r, sorted[k])}
        n == Cardinality(ahead)
    IN  SubSeq(sorted, 1, n) \o <<r>> \o SubSeq(sorted, n + 1, Len(sorted))

RECURSIVE SortPrefix(_, _)
\* sort_values(["priority", "published_at"], ascending=[False, False]) on the
\* first n rows: a sort on several columns is pandas' lexsort, which is stable.
SortPrefix(d, n) ==
    IF n = 0 THEN <<>> ELSE InsertStable(SortPrefix(d, n - 1), d[n])

sort_values(d) == SortPrefix(d, Len(d))

prioritize(d, prefer_list) ==
    IF prefer_list = <<>> THEN d
    ELSE LET scored == [k \in 1..Len(d) |->
                 [idx |-> d[k].idx, title |-> d[k].title, link |-> d[k].link,
                  published_at |-> d[k].published_at,
                  priority |-> score(d[k].link, prefer_list)]]
             sorted == sort_values(scored)
         IN  [k \in 1..Len(sorted) |->
                 Row(sorted[k].idx, sorted[k].title, sorted[k].link,
                     sorted[k].published_at)]

(***************************************************************************)
(* What a stage leaves behind besides the frame it returns                 *)
(***************************************************************************)
\* Line 548: df["dedup"] = ... adds the column to the frame it is given.
WithDedupColumn(d) ==
    [k \in 1..Len(d) |->
        [idx |-> d[k].idx, title |-> d[k].title, link |-> d[k].link,
         published_at |-> d[k].published_at,
         dedup |-> dedup_key(d[k].title, d[k].link)]]

\* Lines 150-157: with a non-empty list, df["priority"] = ... adds the
\* column to the frame prioritize was called on.
WithPriorityColumn(d, prefer_list) ==
    IF prefer_list = <<>> THEN d
    ELSE [k \in 1..Len(d) |->
            [idx |-> d[k].idx, title |-> d[k].title, link |-> d[k].link,
             published_at |-> d[k].published_at,
             priority |-> score(d[k].link, prefer_list)]]

\* Lines 125, 143: removed_count = len(df) - len(filtered_df); line 70:
\* len(to_remove).
removed_count(d, filtered_df) == Len(d) - Len(filtered_df)

\* Lines 126-127, 144-145, 69-70: the count is printed when it is not 0.
ReportRemoved(d, filtered_df) ==
    IF removed_count(d, filtered_df) > 0
    THEN <<removed_count(d, filtered_df)>>
    ELSE <<>>

(***************************************************************************)
(* The scorer on its own: every pair of texts up to MaxTextLen characters. *)
(***************************************************************************)
MaxTextLen == 3

TextAlphabet == {"a", "B", "!", " "}

Texts == StringsUpTo(TextAlphabet, MaxTextLen) \cup {None}

NoCfg == [filter_only_preferred_sources |-> FALSE,
          sources_preferidas |-> <<>>,
          blacklist |-> <<>>,
          email |-> FALSE,
          telegram |-> FALSE,
          threshold |-> <<7, 10>>]

InitSim ==
    /\ pc = "call_similarity"
    /\ text1 \in Texts
    /\ text2 \in Texts
    /\ result = <<>>
    /\ df = <<>>
    /\ prev = <<>>
    /\ raw = df
    /\ arg = <<>>
    /\ reported = <<>>
    /\ cfg = NoCfg
    /\ stages = <<>>
    /\ outputs = <<>>

CallSimilarity ==
    /\ pc = "call_similarity"
    /\ result' = calculate_similarity(text1, text2)
    /\ pc' = "returned_similarity"
    /\ UNCHANGED <<df, prev, cfg, stages, outputs, text1, text2, raw, arg, reported>>

SpecSim == InitSim /\ [][CallSimilarity]_vars

\* The returned score lies in [0.0, 1.0].
InUnitInterval(r) == r[2] > 0 /\ 0 <= r[1] /\ r[1] <= r[2]

\* C5 (as stated): the score is always in [0.0, 1.0], and for every
\* non-empty string s, similarity(s, s) is exactly 1.0.
C5_Original ==
    pc = "returned_similarity" =>
        /\ InUnitInterval(result)
        /\ (text1 = text2 /\ text1 # None /\ Len(text1) > 0) => result[1] = result[2]

\* C5 (amended): the score is always in [0.0, 1.0]; similarity(s, s) is
\* exactly 1.0 for every string s that holds at least one word once
\* lower-cased, stripped of punctuation and split on whitespace, and 0.0
\* for every other s.
C5_RangeAndSelfSimilarity ==
    pc = "returned_similarity" =>
        /\ InUnitInterval(result)
        /\ (text1 = text2 /\ text1 # None) =>
              IF \E i \in 1..Len(text1) : text1[i] \notin Punctuation \cup Whitespace
              THEN result[1] = result[2]
              ELSE result[1] = 0

C5_Witness ==
    /\ pc = "returned_similarity"
    /\ text1 = text2
    /\ text1 = <<"a", " ", "B">>
    /\ result = <<2, 2>>

\* C6: the scorer is symmetric, and returns 0.0 (never dividing by zero)
\* when either text is empty or missing or when no word is left in either
\* text after normalization.
C6_SymmetricAndZeroOnEmpty ==
    pc = "returned_similarity" =>
        /\ result = calculate_similarity(text2, text1)
        /\ result[2] # 0
        /\ (\/ text1 \in {None, <<>>}
            \/ text2 \in {None, <<>>}
            \/ Normalize(text1) \cup Normalize(text2) = {}) => result = Zero

C6_Witness ==
    /\ pc = "returned_similarity"
    /\ text1 = <<"a", " ", "B">>
    /\ text2 = <<"a", "!">>
    /\ result = <<1, 2>>

(***************************************************************************)
(* main (lines 534-629)                                                    *)
(***************************************************************************)
MaxItems == 3

\* since_dt (line 538): items published before it are outside the window.
since_dt == 1

\* similarity_threshold=0.7 (line 570)
MainThreshold == <<7, 10>>

\* The items a feed may return: <<title, link, published_at>>.
FeedItems ==
    { <<(<<"a">>), (<<"b", "c">>), 1>>,
      <<(<<"a", "b">>), (<<"c">>), 1>>,
      <<None, (<<"c">>), 2>>,
      <<(<<>>), (<<"c">>), 1>>,
      <<(<<"A">>), (<<"c">>), 2>>,
      <<(<<"a">>), (<<"b", "c">>), 0>> }

Configs ==
    [filter_only_preferred_sources : BOOLEAN,
     sources_preferidas : {<<>>, <<(<<"b">>)>>},
     blacklist : {<<>>, <<(<<"a">>)>>},
     email : BOOLEAN,
     telegram : BOOLEAN,
     threshold : {MainThreshold}]

Init ==
    /\ pc = "fetch_items"
    /\ df \in Batches(FeedItems, MaxItems)
    /\ cfg \in Configs
    /\ prev = <<>>
    /\ raw = df
    /\ arg = <<>>
    /\ reported = <<>>
    /\ stages = <<>>
    /\ outputs = <<>>
    /\ text1 = None
    /\ text2 = None
    /\ result = <<>>

\* Lines 540-543: raw = fetch_items(...); if not raw: return
FetchItems ==
    /\ pc = "fetch_items"
    /\ pc' = IF df = <<>> THEN "done" ELSE "window"
    /\ UNCHANGED <<df, prev, cfg, stages, outputs, text1, text2, result,
                   raw, arg, reported>>

\* Lines 545-547: df = df[df["published_at"] >= since_dt].copy()
WindowFilter ==
    /\ pc = "window"
    /\ df' = RowsAt(df, {p \in 1..Len(df) : df[p].published_at >= since_dt})
    /\ pc' = "drop_duplicates"
    /\ UNCHANGED <<prev, cfg, stages, outputs, text1, text2, result,
                   raw, arg, reported>>

\* Lines 548-553.  On a frame without rows, df.apply(..., axis=1) returns a
\* copy of the (five-column) frame instead of a Series, and assigning it to
\* the single column "dedup" raises ValueError at line 548.
DropDuplicates ==
    /\ pc = "drop_duplicates"
    /\ IF df = <<>>
       THEN /\ pc' = "raised"
            /\ UNCHANGED <<df, prev, stages, arg, reported>>
       ELSE /\ df' = drop_duplicates(df)
            /\ prev' = df
            /\ arg' = WithDedupColumn(df)
            /\ reported' = <<>>
            /\ stages' = Append(stages, "dedup")
            /\ pc' = IF df' = <<>> THEN "done" ELSE "filter_sources"
    /\ UNCHANGED <<cfg, outputs, text1, text2, result, raw>>

\* Lines 555-560
FilterSources ==
    /\ pc = "filter_sources"
    /\ IF cfg.filter_only_preferred_sources
       THEN /\ df' = filter_sources(df, cfg.sources_preferidas)
            /\ prev' = df
            /\ arg' = df
            /\ reported' = ReportRemoved(df, df')
            /\ stages' = Append(stages, "sources")
            /\ pc' = IF df' = <<>> THEN "done" ELSE "filter_blacklist"
       ELSE /\ pc' = "filter_blacklist"
            /\ UNCHANGED <<df, prev, stages, arg, reported>>
    /\ UNCHANGED <<cfg, outputs, text1, text2, result, raw>>

\* Lines 562-567
FilterBlacklist ==
    /\ pc = "filter_blacklist"
    /\ df' = filter_blacklist(df, cfg.blacklist)
    /\ prev' = df
    /\ arg' = df
    /\ reported' = ReportRemoved(df, df')
    /\ stages' = Append(stages, "blacklist")
    /\ pc' = IF df' = <<>> THEN "done" ELSE "remove_similar_news"
    /\ UNCHANGED <<cfg, outputs, text1, text2, result, raw>>

\* Lines 569-574
RemoveSimilar ==
    /\ pc = "remove_similar_news"
    /\ df' = remove_similar_news(df, MainThreshold)
    /\ prev' = df
    /\ arg' = df
    /\ reported' = ReportRemoved(df, df')
    /\ stages' = Append(stages, "similar")
    /\ pc' = IF df' = <<>> THEN "done" ELSE "prioritize"
    /\ UNCHANGED <<cfg, outputs, text1, text2, result, raw>>

\* Line 576
Prioritize ==
    /\ pc = "prioritize"
    /\ df' = prioritize(df, cfg.sources_preferidas)
    /\ prev' = df
    /\ arg' = WithPriorityColumn(df, cfg.sources_preferidas)
    /\ reported' = <<>>
    /\ stages' = Append(stages, "prioritize")
    /\ pc' = "render"
    /\ UNCHANGED <<cfg, outputs, text1, text2, result, raw>>

\* Lines 578-629: the CSV and Markdown files, then e-mail and Telegram
\* when enabled.
Render ==
    /\ pc = "render"
    /\ outputs' = <<"csv", "md">>
                  \o (IF cfg.email THEN <<"email">> ELSE <<>>)
                  \o (IF cfg.telegram THEN <<"telegram">> ELSE <<>>)
    /\ pc' = "done"
    /\ UNCHANGED <<df, prev, cfg, stages, text1, text2, result,
                   raw, arg, reported>>

Next ==
    \/ FetchItems
    \/ WindowFilter
    \/ DropDuplicates
    \/ FilterSources
    \/ FilterBlacklist
    \/ RemoveSimilar
    \/ Prioritize
    \/ Render

Spec == Init /\ [][Next]_vars

(***************************************************************************)
(* Exact-duplicate filter                                                  *)
(***************************************************************************)
\* The rows of a frame, as a set.
RowSet(d) == {d[k] : k \in 1..Len(d)}

\* d keeps rows of e only, in the order they have in e (index labels of a
\* frame built by DataFrame are its row numbers).
OrderedSubsequence(d, e) ==
    /\ RowSet(d) \subseteq RowSet(e)
    /\ \A k \in 1..(Len(d) - 1) : d[k].idx < d[k + 1].idx

C2_RemovedIffSameTitleAndLink ==
    stages = <<"dedup">> =>
        \A i \in 1..Len(prev) :
            (prev[i] \notin RowSet(df)) <=>
                \E q \in 1..(i - 1) :
                    /\ OrEmpty(prev[q].title) = OrEmpty(prev[i].title)
                    /\ OrEmpty(prev[q].link) = OrEmpty(prev[i].link)

(***************************************************************************)
(* Control flow of main                                                    *)
(***************************************************************************)
\* The stages of a run, in their fixed order.
StageOrder ==
    <<"dedup">>
    \o (IF cfg.filter_only_preferred_sources THEN <<"sources">> ELSE <<>>)
    \o <<"blacklist", "similar", "prioritize">>

\* C10: the stages run once each in the fixed order; once a stage has
\* yielded an empty batch nothing more is executed, nothing is rendered or
\* sent, and the run ends normally, without raising.
C10_LinearPipelineEndsNormally ==
    /\ Len(stages) <= Len(StageOrder)
    /\ stages = SubSeq(StageOrder, 1, Len(stages))
    /\ (stages # <<>> /\ df = <<>>) => (pc = "done" /\ outputs = <<>>)
    /\ outputs # <<>> => stages = StageOrder
    /\ pc # "raised"

(***************************************************************************)
(* The near-duplicate collapser on its own: every batch of at most         *)
(* MaxSimilarItems titles, under every threshold of Thresholds.            *)
(***************************************************************************)
MaxSimilarItems == 3

SimilarTitles ==
    { <<"a", " ", "b">>,
      <<"a", " ", "b", " ", "c">>,
      <<"b", " ", "c">>,
      <<"A", " ", "b", "!">>,
      <<>>,
      None }

Thresholds == {<<-1, 2>>, <<0, 1>>, <<3, 5>>, <<2, 3>>, <<7, 10>>, <<1, 1>>, <<3, 2>>}

InitSimilar ==
    /\ pc = "call_remove_similar_news"
    /\ df \in Batches({<<t, (<<"c">>), 1>> : t \in SimilarTitles}, MaxSimilarItems)
    /\ cfg \in {[NoCfg EXCEPT !.threshold = t] : t \in Thresholds}
    /\ prev = <<>>
    /\ raw = df
    /\ arg = <<>>
    /\ reported = <<>>
    /\ stages = <<>>
    /\ outputs = <<>>
    /\ text1 = None
    /\ text2 = None
    /\ result = <<>>

CallRemoveSimilar ==
    /\ pc = "call_remove_similar_news"
    /\ df' = remove_similar_news(df, cfg.threshold)
    /\ prev' = df
    /\ arg' = df
    /\ reported' = ReportRemoved(df, df')
    /\ pc' = "returned_remove_similar_news"
    /\ UNCHANGED <<cfg, stages, outputs, text1, text2, result, raw>>

SpecSimilar == InitSimilar /\ [][CallRemoveSimilar]_vars

\* C3: after the collapser has returned, no two distinct surviving rows
\* have a title similarity greater than or equal to the threshold.
C3_NoSimilarSurvivors ==
    pc = "returned_remove_similar_news" =>
        \A k, l \in 1..Len(df) :
            k # l =>
                LET sim == calculate_similarity(df[k].title, df[l].title)
                IN  sim[1] * cfg.threshold[2] < cfg.threshold[1] * sim[2]

C3_Witness ==
    /\ pc = "returned_remove_similar_news"
    /\ cfg.threshold = <<2, 3>>
    /\ Len(prev) = 3
    /\ Len(df) = 2
    /\ calculate_similarity(prev[1].title, prev[2].title) = <<2, 3>>

\* The set of dropped positions the claim describes: j is dropped exactly
\* when some earlier position that is not dropped is similar to it.
DroppedAsClaimed(d, thr, D) ==
    \A j \in 1..Len(d) :
        j \in D <=>
            \E i \in 1..(j - 1) :
                /\ i \notin D
                /\ RatioGe(calculate_similarity(d[i].title, d[j].title), thr)

\* C4: row j is dropped if and only if some earlier row that is itself not
\* dropped is similar to it, and the output lists the surviving rows in
\* their original relative order.
C4_EarlierKeptRowWins ==
    pc = "returned_remove_similar_news" =>
        \E D \in SUBSET (1..Len(prev)) :
            /\ DroppedAsClaimed(prev, cfg.threshold, D)
            /\ [k \in 1..Len(df) |-> Fields(df[k])]
                   = [k \in 1..(Len(prev) - Cardinality(D)) |->
                         Fields(RowsAt(prev, (1..Len(prev)) \ D)[k])]

\* A ~ B and B ~ C but not A ~ C: A and C are kept.
C4_Witness ==
    /\ pc = "returned_remove_similar_news"
    /\ cfg.threshold = <<3, 5>>
    /\ Len(prev) = 3
    /\ prev[1].title = <<"a", " ", "b">>
    /\ prev[2].title = <<"a", " ", "b", " ", "c">>
    /\ prev[3].title = <<"b", " ", "c">>
    /\ Len(df) = 2
    /\ df[1].title = prev[1].title
    /\ df[2].title = prev[3].title

(***************************************************************************)
(* The blacklist filter on its own: every batch of at most                 *)
(* MaxBlacklistItems titles of at most MaxTitleLen characters.  The        *)
(* blacklisted terms are words.                                            *)
(***************************************************************************)
MaxBlacklistItems == 2

MaxTitleLen == 2

TitleAlphabet == {"a", "A", " "}

Blacklists ==
    { <<>>,
      <<(<<"a">>)>>,
      <<(<<"a", "a">>)>>,
      <<(<<"A">>), (<<"a", "A">>)>> }

InitBlacklist ==
    /\ pc = "call_filter_blacklist"
    /\ df \in Batches({<<t, (<<"c">>), 1>> :
                          t \in StringsUpTo(TitleAlphabet, MaxTitleLen) \cup {None}},
                      MaxBlacklistItems)
    /\ cfg \in {[NoCfg EXCEPT !.blacklist = b] : b \in Blacklists}
    /\ prev = <<>>
    /\ raw = df
    /\ arg = <<>>
    /\ reported = <<>>
    /\ stages = <<>>
    /\ outputs = <<>>
    /\ text1 = None
    /\ text2 = None
    /\ result = <<>>

CallFilterBlacklist ==
    /\ pc = "call_filter_blacklist"
    /\ df' = filter_blacklist(df, cfg.blacklist)
    /\ prev' = df
    /\ arg' = df
    /\ reported' = ReportRemoved(df, df')
    /\ pc' = "returned_filter_blacklist"
    /\ UNCHANGED <<cfg, stages, outputs, text1, text2, result, raw>>

SpecBlacklist == InitBlacklist /\ [][CallFilterBlacklist]_vars

\* The words of a text: its maximal runs of word characters.
WordsOf(s) ==
    {SubSeq(s, i, j) : <<i, j>> \in
        {p \in (1..Len(s)) \X (1..Len(s)) :
            /\ p[1] <= p[2]
            /\ \A k \in p[1]..p[2] : s[k] \notin {" ", "!", "."}
            /\ (p[1] = 1 \/ s[p[1] - 1] \in {" ", "!", "."})
            /\ (p[2] = Len(s) \/ s[p[2] + 1] \in {" ", "!", "."})}}

\* The title holds a blacklisted term as a whole word, whatever the case.
HasBlacklistedWord(title, blacklist) ==
    /\ title # None
    /\ \E k \in 1..Len(blacklist) : Lower(blacklist[k]) \in WordsOf(Lower(title))

\* C7: the blacklist filter removes a row exactly when its title holds a
\* blacklisted term as a whole word, case-insensitively; a row without a
\* title is kept, an empty blacklist returns the batch unchanged, and the
\* surviving rows keep their relative order.
C7_RemovesWholeWordMatches ==
    pc = "returned_filter_blacklist" =>
        /\ df = SelectSeq(prev, LAMBDA r : ~HasBlacklistedWord(r.title, cfg.blacklist))
        /\ \A k \in 1..Len(prev) : prev[k].title = None => prev[k] \in RowSet(df)
        /\ cfg.blacklist = <<>> => df = prev

\* "a" is blacklisted: the title "aa" is kept and the title " A" is removed.
C7_Witness ==
    /\ pc = "returned_filter_blacklist"
    /\ cfg.blacklist = <<(<<"a">>)>>
    /\ Len(prev) = 2
    /\ prev[1].title = <<"a", "a">>
    /\ prev[2].title = <<" ", "A">>
    /\ df = <<prev[1]>>

(***************************************************************************)
(* The priority orderer on its own: every batch of at most MaxPriorityItems*)
(* rows, under preferred-source lists that start with 0 or 100 entries     *)
(* matching no link.                                                       *)
(***************************************************************************)
MaxPriorityItems == 3

PriorityLinks == {<<"x", "v">>, <<"i">>, None}

\* n entries that occur in no link.
Padding(n) == [k \in 1..n |-> <<"z">>]

PreferLists ==
    { <<>>,
      <<(<<"v">>)>>,
      <<(<<"v">>), (<<"i">>)>>,
      <<(<<"i">>), (<<"v">>)>>,
      Padding(100) \o <<(<<"v">>)>>,
      Padding(100) \o <<(<<"v">>), (<<"i">>)>> }

InitPrioritize ==
    /\ pc = "call_prioritize"
    /\ df \in Batches({<<(<<>>), l, p>> : l \in PriorityLinks, p \in {1, 2}},
                      MaxPriorityItems)
    /\ cfg \in {[NoCfg EXCEPT !.sources_preferidas = l] : l \in PreferLists}
    /\ prev = <<>>
    /\ raw = df
    /\ arg = <<>>
    /\ reported = <<>>
    /\ stages = <<>>
    /\ outputs = <<>>
    /\ text1 = None
    /\ text2 = None
    /\ result = <<>>

CallPrioritize ==
    /\ pc = "call_prioritize"
    /\ df' = prioritize(df, cfg.sources_preferidas)
    /\ prev' = df
    /\ arg' = WithPriorityColumn(df, cfg.sources_preferidas)
    /\ reported' = <<>>
    /\ pc' = "returned_prioritize"
    /\ UNCHANGED <<cfg, stages, outputs, text1, text2, result, raw>>

SpecPrioritize == InitPrioritize /\ [][CallPrioritize]_vars

\* The place in the list of the first entry the link contains; one past the
\* end of the list when it contains none.
FirstMatch(url, prefer_list) ==
    LET hits == {k \in 1..Len(prefer_list) : Contains(OrEmpty(url), prefer_list[k])}
    IN  IF hits = {} THEN Len(prefer_list) + 1
        ELSE CHOOSE k \in hits : \A h \in hits : k <= h

\* C8: for any (non-empty) preferred-source list, rows whose first matching
\* entry is earlier come before rows whose first matching entry is later,
\* and those before rows matching no entry, whatever the timestamps; among
\* rows of equal priority the more recent comes first.
C8_EarlierEntryFirst ==
    (pc = "returned_prioritize" /\ cfg.sources_preferidas # <<>>) =>
        \A k, l \in 1..Len(df) :
            k < l =>
                LET mk == FirstMatch(df[k].link, cfg.sources_preferidas)
                    ml == FirstMatch(df[l].link, cfg.sources_preferidas)
                IN  /\ mk <= ml
                    /\ mk = ml => df[k].published_at >= df[l].published_at

\* The priority score: 100 - index of the first match, 0 for no match.
PriorityScore(url, prefer_list) ==
    IF FirstMatch(url, prefer_list) > Len(prefer_list) THEN 0
    ELSE 100 - (FirstMatch(url, prefer_list) - 1)

\* The position of the row labelled i in d.
PositionOf(d, i) == CHOOSE k \in 1..Len(d) : d[k].idx = i

\* C9: the output of the priority orderer is a permutation of its input in
\* which rows with the same (priority score, published_at) keep their input
\* order; with an empty preferred-source list it is the input, unchanged.
C9_StablePermutation ==
    pc = "returned_prioritize" =>
        /\ Len(df) = Len(prev)
        /\ RowSet(df) = RowSet(prev)
        /\ \A k, l \in 1..Len(prev) :
               (/\ k < l
                /\ prev[k].published_at = prev[l].published_at
                /\ PriorityScore(prev[k].link, cfg.sources_preferidas)
                       = PriorityScore(prev[l].link, cfg.sources_preferidas))
               => PositionOf(df, prev[k].idx) < PositionOf(df, prev[l].idx)
        /\ cfg.sources_preferidas = <<>> => df = prev

\* Two rows that tie follow a row that has to move in front of them.
C9_Witness ==
    /\ pc = "returned_prioritize"
    /\ cfg.sources_preferidas = <<(<<"v">>), (<<"i">>)>>
    /\ Len(prev) = 3
    /\ prev[1].link = None /\ prev[1].published_at = 1
    /\ prev[2].link = None /\ prev[2].published_at = 1
    /\ prev[3].link = <<"x", "v">>
    /\ df = <<prev[3], prev[1], prev[2]>>

(***************************************************************************)
(* Claim C11                                                               *)
(***************************************************************************)
ItemColumns == {"idx", "title", "link", "published_at"}

\* C11: after a stage has returned, every item of its output is an item of
\* its input with title, link and published_at unchanged and no field
\* added, the output has no more items than the input, and the frame the
\* stage was called on is as it was before the call.  (The source and
\* query columns are read and written by no stage and are not carried.)
C11_OnlySelectsAndReorders ==
    pc = "returned_prioritize" =>
        /\ \A k \in 1..Len(df) :
              /\ Fields(df[k]) \in {Fields(prev[p]) : p \in 1..Len(prev)}
              /\ DOMAIN df[k] = ItemColumns
        /\ Len(df) <= Len(prev)
        /\ arg = prev

(***************************************************************************)
(* filter_sources on its own                                               *)
(***************************************************************************)
MaxSourceItems == 2
MaxLinkLen == 2
LinkAlphabet == {"a", "A"}
SourceLinks == StringsUpTo(LinkAlphabet, MaxLinkLen) \cup {None}
AllowLists == {<<>>, << <<"a">> >>, << <<"A">>, <<"a", "a">> >>,
               << <<"a", "A">> >>, << <<>> >>, << <<"A", "a">>, <<>> >>}

InitSources ==
    /\ pc = "call_filter_sources"
    /\ df \in Batches({<< <<>>, l, 1 >> : l \in SourceLinks}, MaxSourceItems)
    /\ cfg \in {[NoCfg EXCEPT !.filter_only_preferred_sources = TRUE,
                              !.sources_preferidas = s] : s \in AllowLists}
    /\ prev = <<>>
    /\ raw = df
    /\ arg = <<>>
    /\ reported = <<>>
    /\ stages = <<>>
    /\ outputs = <<>>
    /\ text1 = None
    /\ text2 = None
    /\ result = <<>>

CallFilterSources ==
    /\ pc = "call_filter_sources"
    /\ df' = filter_sources(df, cfg.sources_preferidas)
    /\ prev' = df
    /\ arg' = df
    /\ reported' = ReportRemoved(df, df')
    /\ pc' = "returned_filter_sources"
    /\ UNCHANGED <<cfg, stages, outputs, text1, text2, result, raw>>

SpecSources == InitSources /\ [][CallFilterSources]_vars

(***************************************************************************)
(* Claim C12                                                               *)
(***************************************************************************)
\* t occurs in u at some position, compared character by character.
OccursIn(t, u) ==
    \E o \in 0..Len(u) :
        /\ o + Len(t) <= Len(u)
        /\ \A k \in 1..Len(t) : u[o + k] = t[k]

AllowListed(link, list) == \E k \in 1..Len(list) : OccursIn(list[k], link)

\* The rows of d at the positions satisfying Keep, in d's order.
KeptOf(d, Keep(_)) ==
    LET F[n \in 0..Len(d)] ==
            IF n = 0 THEN <<>>
            ELSE IF Keep(d[n]) THEN Append(F[n - 1], d[n]) ELSE F[n - 1]
    IN  F[Len(d)]

ReportedCount == IF reported = <<>> THEN 0 ELSE reported[1]

\* C12 as written: with a non-empty allow-list the filter keeps exactly the
\* rows whose link is present and contains some entry as a case-sensitive
\* substring (a row with a missing link is dropped), in their input order;
\* an empty allow-list returns the batch unchanged; the reported
\* removed-count is input length minus output length.
C12_Original ==
    pc = "returned_filter_sources" =>
        LET list == cfg.sources_preferidas
            Keep(r) == r.link # None /\ AllowListed(r.link, list)
        IN  /\ list = <<>> => df = prev
            /\ list # <<>> => df = KeptOf(prev, Keep)
            /\ ReportedCount = Len(prev) - Len(df)

\* C12: with a non-empty allow-list the filter keeps exactly the rows whose
\* link, a missing link read as the empty string, contains some entry as a
\* case-sensitive substring, in their input order: a row with a missing
\* link is dropped unless the list holds the empty string; an empty
\* allow-list returns the batch unchanged; the reported removed-count is
\* input length minus output length.
C12_KeepsAllowListed ==
    pc = "returned_filter_sources" =>
        LET list == cfg.sources_preferidas
            Keep(r) == AllowListed(IF r.link = None THEN <<>> ELSE r.link, list)
        IN  /\ list = <<>> => df = prev
            /\ list # <<>> => df = KeptOf(prev, Keep)
            /\ ReportedCount = Len(prev) - Len(df)

\* A batch of two in which the first row is dropped for matching only in
\* another case, the second is kept, and one removal is reported.
C12_Witness ==
    /\ pc = "returned_filter_sources"
    /\ cfg.sources_preferidas = << <<"a">> >>
    /\ Len(prev) = 2
    /\ prev[1].link = <<"A">>
    /\ prev[2].link = <<"A", "a">>
    /\ Len(df) = 1
    /\ df[1].link = <<"A", "a">>
    /\ reported = <<1>>

(***************************************************************************)
(* main on five items: two exact copies of the first, and a pair of        *)
(* near-duplicate titles                                                   *)
(***************************************************************************)
TenTokens == <<"a", " ", "b", " ", "c", " ", "d", " ", "e", " ",
               "f", " ", "g", " ", "h", " ", "i", " ", "j">>
NineTokens == SubSeq(TenTokens, 1, Len(TenTokens) - 2)
VariantPairs == {<<NineTokens, TenTokens>>, <<TenTokens, NineTokens>>}
FirstTitles == {<<"x">>, <<"a">>}
VariantLinks == {<<"u">>, <<"w">>}
\* Links of the first item: a short one, and the ones that continue the
\* title "a" into a variant title followed by a variant link.
FirstLinks ==
    {<<"v">>} \cup {Tail(t) \o l : t \in {NineTokens, TenTokens}, l \in {<<"w">>}}
ScenarioDates == {since_dt, since_dt + 1}

ScenarioBatches ==
    {DataFrame(<< <<t1, l1, since_dt>>, <<t1, l1, p2>>, <<v[1], l3, p3>>,
                  <<t1, l1, since_dt>>, <<v[2], l5, since_dt>> >>) :
        t1 \in FirstTitles, l1 \in FirstLinks, p2 \in ScenarioDates,
        v \in VariantPairs, l3 \in VariantLinks, p3 \in ScenarioDates,
        l5 \in VariantLinks}

InitScenario ==
    /\ pc = "fetch_items"
    /\ df \in ScenarioBatches
    /\ cfg = NoCfg
    /\ prev = <<>>
    /\ raw = df
    /\ arg = <<>>
    /\ reported = <<>>
    /\ stages = <<>>
    /\ outputs = <<>>
    /\ text1 = None
    /\ text2 = None
    /\ result = <<>>

SpecScenario == InitScenario /\ [][Next]_vars

(***************************************************************************)
(* Claim C13                                                               *)
(***************************************************************************)
\* The batch main started from is as C13 describes it: items 2 and 4 have
\* item 1's title and link, item 3's title shares 90% of its tokens with
\* item 5's, and is not similar to item 1's.
IsScenario ==
    /\ Len(raw) = 5
    /\ \A k \in {2, 4} : raw[k].title = raw[1].title /\ raw[k].link = raw[1].link
    /\ calculate_similarity(raw[3].title, raw[5].title) = <<9, 10>>
    /\ ~RatioGe(calculate_similarity(raw[1].title, raw[3].title), MainThreshold)

\* C13: with threshold 0.7 and no allow-list, blacklist or preferred
\* sources, main run on such a batch ends with exactly two items, item 1
\* then item 3.
C13_FirstOfEachCluster ==
    (pc = "done" /\ IsScenario) =>
        /\ Len(df) = 2
        /\ Fields(df[1]) = Fields(raw[1])
        /\ Fields(df[2]) = Fields(raw[3])

====
